---- MODULE Spec2Model ----
(***************************************************************************)
(* Model of src/algo2.py: the union-find max-tree construction of Berger   *)
(* et al. without union-by-rank (maxtree_berger), its neighbour            *)
(* enumeration (get_4_neighbors, get_8_neighbors), the path-compressing    *)
(* root lookup (find_pixel_parent) and the canonization pass (canonize).   *)
(*                                                                         *)
(* An image of shape (shape[0], shape[1]) is flattened row-major by        *)
(* image.flatten(): the pixel at row r, column c has flat index            *)
(* r * shape[1] + c.  The code names shape[0] "width" and shape[1]         *)
(* "height" (line 105); the model keeps these names.                       *)
(*                                                                         *)
(* parents and zparents are numpy arrays of shape (resolution, 1).         *)
(* Indexing such an array with an integer yields a one-element VIEW of the *)
(* row, a negative integer n addresses row n + resolution, and an integer  *)
(* outside -resolution .. resolution-1 raises IndexError.                  *)
(***************************************************************************)
EXTENDS Integers, Sequences, FiniteSets, TLC

\* Largest image.shape[0], image.shape[1] and number of pixels of an image.
MaxWidth == 3

MaxHeight == 4

MaxRes == 6

\* Number of distinct intensity levels an image may use.
NumLevels == 3

Intensities == {2 * l + 1 : l \in 1 .. NumLevels}

VARIABLES
    width,          \* image.shape[0]
    height,         \* image.shape[1]
    flatten_image,  \* image.flatten(): flat index -> intensity
    connection8,    \* the connectivity selector
    sorted_pixels,  \* flatten_image.argsort()
    parents,        \* the parent array
    zparents,       \* the disjoint-set array
    k,              \* number of entries of sorted_pixels not yet visited
    pi,             \* the pixel of the current iteration (-1 before the first)
    enumerated,     \* the list the neighbour function returned for pi
    neighbors,      \* the filtered neighbours of pi still to be merged
    built,          \* the parent array as the pass handed it to canonize
    pc              \* "visit", "merge", "canonize", "done" or "error"

vars == <<width, height, flatten_image, connection8, sorted_pixels, parents,
          zparents, k, pi, enumerated, neighbors, built, pc>>

resolution == width * height

undefined_node_collides == resolution - 1

undefined_node == resolution + 2

Pixels == 0 .. resolution - 1

Range(s) == {s[i] : i \in DOMAIN s}

\* numpy integer indexing of an array of `resolution` rows.
InBounds(n) == n >= 0 - resolution /\ n < resolution

Index(n) == IF n < 0 THEN n + resolution ELSE n

(***************************************************************************)
(* argsort: the default kind is not stable, so every permutation that      *)
(* lists the pixels by non-decreasing intensity is a possible outcome.     *)
(***************************************************************************)
RECURSIVE Perms(_)
Perms(S) ==
    IF S = {} THEN {<<>>}
    ELSE UNION {{<<x>> \o p : p \in Perms(S \ {x})} : x \in S}

argsort(flat) ==
    {s \in Perms(DOMAIN flat) :
        \A i \in 1 .. Len(s) - 1 : flat[s[i]] <= flat[s[i + 1]]}

(***************************************************************************)
(* find_pixel_parent: returns the array after path compression and the     *)
(* root found.                                                             *)
(***************************************************************************)
RECURSIVE find_pixel_parent(_, _)
find_pixel_parent(arr, index) ==
    LET root == arr[Index(index)] IN
    IF root # index
    THEN LET sub == find_pixel_parent(arr, root)
         IN  [arr  |-> [sub.arr EXCEPT ![Index(index)] = sub.root],
              root |-> sub.root]
    ELSE [arr |-> arr, root |-> root]

(***************************************************************************)
(* Neighbour enumeration.                                                  *)
(***************************************************************************)
AppendIf(cond, s, e) == IF cond THEN Append(s, e) ELSE s

get_4_neighbors(w, h, res, p, pixel_row) ==
    LET top_pi    == p - w
        bottom_pi == p + w
        left_pi   == p - 1
        right_pi  == p + 1
        n1 == AppendIf(top_pi >= 0, <<>>, top_pi)
        n2 == AppendIf(bottom_pi < res, n1, bottom_pi)
        n3 == AppendIf(left_pi % w = pixel_row, n2, left_pi)
        n4 == AppendIf(right_pi % w = pixel_row, n3, right_pi)
    IN  n4

get_8_neighbors(w, h, res, p, pixel_row) ==
    LET n0 == get_4_neighbors(w, h, res, p, pixel_row)
        top_left_pi     == p - w - 1
        top_right_pi    == top_left_pi + 2
        bottom_left_pi  == p + w - 1
        bottom_right_pi == bottom_left_pi + 2
        n1 == AppendIf(top_left_pi >= 0
                       /\ top_left_pi % w = pixel_row - 1, n0, top_left_pi)
        n2 == AppendIf(top_right_pi >= 0
                       /\ top_right_pi % w = pixel_row - 1, n1, top_right_pi)
        n3 == AppendIf(bottom_left_pi < res
                       /\ bottom_left_pi % w = pixel_row + 1, n2, bottom_left_pi)
        n4 == AppendIf(bottom_right_pi < res
                       /\ bottom_right_pi % w = pixel_row + 1, n3, bottom_right_pi)
    IN  n4

\* The call maxtree_berger makes for pixel p (lines 137-143).
neighbors_of(p) ==
    IF connection8
    THEN get_8_neighbors(width, height, resolution, p, p % width)
    ELSE get_4_neighbors(width, height, resolution, p, p % width)

(***************************************************************************)
(* Lines 150-153, one neighbour.  nei_root is the value find_pixel_parent  *)
(* returns, parents[index]: a view of row nei_pi of zparents.  The chained *)
(* assignment stores into zparents first and then evaluates nei_root again *)
(* for the subscript of parents, so when nei_pi is itself the root the     *)
(* view already holds pi and the second store goes to parents[pi].         *)
(***************************************************************************)
merge_wrong_way(par, zpar, nei_pi, p) ==
    LET f        == find_pixel_parent(zpar, nei_pi)
        nei_root == f.root
        zpar1    == [f.arr EXCEPT ![p] = nei_root]
    IN  IF nei_root # p
        THEN [parents |-> [par EXCEPT ![p] = nei_root], zparents |-> zpar1]
        ELSE [parents |-> par, zparents |-> f.arr]

merge(par, zpar, nei_pi, p) ==
    LET f        == find_pixel_parent(zpar, nei_pi)
        nei_root == f.root
        zpar1    == [f.arr EXCEPT ![nei_root] = p]
        reread   == zpar1[Index(nei_pi)]
    IN  IF nei_root # p
        THEN [parents |-> [par EXCEPT ![reread] = p], zparents |-> zpar1]
        ELSE [parents |-> par, zparents |-> f.arr]

(***************************************************************************)
(* canonize: one iteration of the loop, the loop, and the function.        *)
(***************************************************************************)
canonize_never_skips(img, arr, p) == arr

canonize_step(img, arr, p) ==
    LET root == arr[p] IN
    IF img[root] = img[arr[root]]
    THEN [arr EXCEPT ![p] = arr[root]]
    ELSE arr

RECURSIVE canonize_loop(_, _, _)
canonize_loop(img, arr, todo) ==
    IF todo = <<>> THEN arr
    ELSE canonize_loop(img, canonize_step(img, arr, Head(todo)), Tail(todo))

canonize_descending(img, arr, nodes_order) ==
    canonize_loop(img, arr, [i \in 1 .. Len(nodes_order) |->
                                nodes_order[Len(nodes_order) + 1 - i]])

canonize(img, arr, nodes_order) == canonize_loop(img, arr, nodes_order)

(***************************************************************************)
(* The state machine of maxtree_berger.                                    *)
(***************************************************************************)
Init ==
    /\ width \in 1 .. MaxWidth
    /\ height \in 1 .. MaxHeight
    /\ width * height <= MaxRes
    /\ flatten_image \in [Pixels -> Intensities]
    /\ connection8 \in BOOLEAN
    /\ sorted_pixels \in argsort(flatten_image)
    /\ parents = [p \in Pixels |-> undefined_node]
    /\ zparents = parents
    /\ built = <<>>
    /\ k = resolution
    /\ pi = -1
    /\ enumerated = <<>>
    /\ neighbors = <<>>
    /\ pc = "visit"

\* Where the loops of lines 130 and 149 continue.
NextPc(todo, left) ==
    IF todo # <<>> THEN "merge"
    ELSE IF left > 0 THEN "visit"
    ELSE "canonize"

\* Lines 130-146: the next pixel in descending order becomes a node, its
\* neighbours are enumerated and the unvisited ones are filtered out.
Visit ==
    /\ pc = "visit"
    /\ LET p     == sorted_pixels[k]
           par1  == [parents EXCEPT ![p] = p]
           zpar1 == [zparents EXCEPT ![p] = p]
           nb    == neighbors_of(p)
       IN  /\ pi' = p
           /\ parents' = par1
           /\ zparents' = zpar1
           /\ enumerated' = nb
           /\ k' = k - 1
           /\ IF \E i \in DOMAIN nb : ~InBounds(nb[i])
              THEN /\ neighbors' = <<>>
                   /\ pc' = "error"
              ELSE LET flt == SelectSeq(nb,
                                LAMBDA n : par1[Index(n)] # undefined_node)
                   IN  /\ neighbors' = flt
                       /\ pc' = NextPc(flt, k - 1)
    /\ UNCHANGED <<width, height, flatten_image, connection8, sorted_pixels,
                   built>>

\* Lines 149-153: one iteration of the merge loop.
Merge ==
    /\ pc = "merge"
    /\ LET m == merge(parents, zparents, Head(neighbors), pi)
       IN  /\ parents' = m.parents
           /\ zparents' = m.zparents
    /\ neighbors' = Tail(neighbors)
    /\ pc' = NextPc(Tail(neighbors), k)
    /\ UNCHANGED <<width, height, flatten_image, connection8, sorted_pixels,
                   k, pi, enumerated, built>>

\* Lines 155-158: canonization and return.
Canonize ==
    /\ pc = "canonize"
    /\ built' = parents
    /\ parents' = canonize(flatten_image, parents, sorted_pixels)
    /\ pc' = "done"
    /\ UNCHANGED <<width, height, flatten_image, connection8, sorted_pixels,
                   zparents, k, pi, enumerated, neighbors>>

Next == Visit \/ Merge \/ Canonize

Spec == Init /\ [][Next]_vars

(***************************************************************************)
(* The image grid and its max-tree, as the properties below refer to them. *)
(***************************************************************************)
GridRow(p) == p \div height

GridCol(p) == p % height

Abs(x) == IF x < 0 THEN 0 - x ELSE x

Adjacent4(p, q) ==
    Abs(GridRow(p) - GridRow(q)) + Abs(GridCol(p) - GridCol(q)) = 1

Adjacent8(p, q) ==
    /\ p # q
    /\ Abs(GridRow(p) - GridRow(q)) <= 1
    /\ Abs(GridCol(p) - GridCol(q)) <= 1

Adjacent(p, q) == IF connection8 THEN Adjacent8(p, q) ELSE Adjacent4(p, q)

GridNeighbors(p) == {q \in Pixels : Adjacent(p, q)}

\* The connected component of S within the threshold set of `level`.
RECURSIVE Reach(_, _)
Reach(S, level) ==
    LET N == S \cup {q \in Pixels : /\ flatten_image[q] >= level
                                    /\ \E p \in S : Adjacent(p, q)}
    IN  IF N = S THEN S ELSE Reach(N, level)

Component(p) == Reach({p}, flatten_image[p])

CanonicalNode(p) ==
    IF parents[p] = p \/ flatten_image[parents[p]] < flatten_image[p]
    THEN p
    ELSE parents[p]

MinIntensity == CHOOSE m \in Range(flatten_image) :
                    \A v \in Range(flatten_image) : m <= v

Visited(p) == parents[p] # undefined_node

PassFinished == pc \in {"canonize", "done"}

\* The order argsort gives when ties are broken by ascending index.
StableOrder ==
    \A i \in 1 .. Len(sorted_pixels) - 1 :
        flatten_image[sorted_pixels[i]] = flatten_image[sorted_pixels[i + 1]]
            => sorted_pixels[i] < sorted_pixels[i + 1]

\* True when following arr from index meets an entry still holding the
\* sentinel, i.e. when find_pixel_parent(arr, index) would read one.
RECURSIVE ReadsSentinel(_, _)
ReadsSentinel(arr, index) ==
    \/ arr[index] = undefined_node
    \/ arr[index] # index /\ ReadsSentinel(arr, arr[index])

(***************************************************************************)
(* C1.  The parent array maxtree_berger returns is the max-tree of the     *)
(* image: two pixels have the same canonical node exactly when they have   *)
(* the same intensity k and lie in the same connected component of the     *)
(* threshold set {x : intensity[x] >= k} under the chosen adjacency.       *)
(***************************************************************************)
C1_ParentArrayIsMaxTree ==
    pc = "done" =>
        \A p, q \in Pixels :
            (CanonicalNode(p) = CanonicalNode(q))
                <=> /\ flatten_image[p] = flatten_image[q]
                    /\ q \in Component(p)

(***************************************************************************)
(* C2.  Parent-intensity invariant: after every union of the descending    *)
(* pass and in the canonized output, every visited pixel p satisfies       *)
(* intensity[parent[p]] <= intensity[p].                                   *)
(***************************************************************************)
C2_ParentIntensityInvariant ==
    \A p \in Pixels :
        Visited(p) => flatten_image[parents[p]] <= flatten_image[p]

\* A union has put a brighter pixel under a strictly darker one, during the
\* pass and in a returned array.
C2_UnionPerformed ==
    /\ pc \in {"visit", "merge", "done"}
    /\ \E p \in Pixels :
        /\ Visited(p)
        /\ parents[p] # p
        /\ flatten_image[parents[p]] < flatten_image[p]

(***************************************************************************)
(* C3.  In the final output the set of pixels with parent[p] = p is        *)
(* non-empty and every such pixel has the global-minimum intensity of the  *)
(* image.                                                                  *)
(***************************************************************************)
C3_RootsHaveGlobalMinimum ==
    pc = "done" =>
        /\ \E p \in Pixels : parents[p] = p
        /\ \A p \in Pixels :
            parents[p] = p => flatten_image[p] = MinIntensity

(***************************************************************************)
(* C4.  End-to-end scenario: on the one-row, four-column image             *)
(* [5, 3, 3, 5] with 4-connectivity and ties broken by ascending index,    *)
(* maxtree_berger completes and returns the order [1, 2, 0, 3] and the     *)
(* parent array [1, 1, 1, 1].                                              *)
(***************************************************************************)
C4_EndToEndScenario ==
    ( /\ width = 1
      /\ height = 4
      /\ flatten_image = [p \in 0 .. 3 |-> IF p \in {0, 3} THEN 5 ELSE 3]
      /\ ~connection8
      /\ StableOrder )
    => /\ sorted_pixels = <<1, 2, 0, 3>>
       /\ pc # "error"
       /\ pc = "done" => parents = [p \in 0 .. 3 |-> 1]

(***************************************************************************)
(* C5.  The neighbour list maxtree_berger obtains for a pixel is exactly   *)
(* the set of grid-adjacent pixels of the row-major image: up, down, left  *)
(* and right under 4-connectivity, plus the four diagonals under           *)
(* 8-connectivity.                                                         *)
(***************************************************************************)
C5_NeighborsAreGridAdjacent ==
    pi # -1 => Range(enumerated) = GridNeighbors(pi)

(***************************************************************************)
(* C6.  The list the neighbour functions return, called as maxtree_berger  *)
(* calls them, holds no duplicate and no index outside 0..resolution-1,    *)
(* for every width >= 1 and height >= 1.                                   *)
(***************************************************************************)
C6_NeighborsDistinctAndInRange ==
    pi # -1 =>
        /\ \A i \in DOMAIN enumerated : enumerated[i] \in Pixels
        /\ \A i, j \in DOMAIN enumerated :
            i # j => enumerated[i] # enumerated[j]

(***************************************************************************)
(* C7.  No leaked sentinel: once the descending pass has finished, before  *)
(* and after canonization, no entry of the parent array is the undefined   *)
(* sentinel and every entry is a pixel index in 0..resolution-1.           *)
(***************************************************************************)
C7_NoLeakedSentinel ==
    PassFinished =>
        \A p \in Pixels :
            parents[p] # undefined_node /\ parents[p] \in Pixels

\* The pass has finished on an image of at least four pixels and has
\* attached pixels under others.
C7_PassFinishedWithUnions ==
    /\ pc = "canonize"
    /\ resolution >= 4
    /\ \E p \in Pixels : parents[p] # p

(***************************************************************************)
(* C8.  After canonization every parent pointer targets a canonical node:  *)
(* q = parent[p] satisfies parent[q] = q or                                *)
(* intensity[parent[q]] < intensity[q].                                    *)
(***************************************************************************)
C8_ParentsAreCanonical ==
    pc = "done" =>
        \A p \in Pixels :
            LET q == parents[p] IN
            parents[q] = q \/ flatten_image[parents[q]] < flatten_image[q]

\* Canonization had a chain of two equal-intensity links to collapse.
C8_ChainCollapsed ==
    /\ pc = "done"
    /\ \E p \in Pixels :
        LET r == built[p] IN
        /\ r # p
        /\ built[r] # r
        /\ flatten_image[built[r]] = flatten_image[r]
        /\ parents[p] = built[r]

(***************************************************************************)
(* C9.  Canonizer idempotence: applying canonize a second time, with the   *)
(* same image and order, to the array it produced from the builder's       *)
(* output leaves that array unchanged.                                     *)
(***************************************************************************)
C9_CanonizeIdempotent ==
    pc = "done" =>
        /\ parents = canonize(flatten_image, built, sorted_pixels)
        /\ canonize(flatten_image, parents, sorted_pixels) = parents

\* The first application changed the builder's array.
C9_FirstPassChangedArray ==
    /\ pc = "done"
    /\ parents # built

(***************************************************************************)
(* C10.  Per-pixel state only moves forward, unvisited -> active root ->   *)
(* merged under another root: a visited pixel never holds the sentinel     *)
(* again; a pixel r is attached under the current pixel p                  *)
(* (zparent[r] = parent[r] = p, r # p) only while it is a self-referencing *)
(* root of zparent, hence at most once; afterwards it is never a zparent   *)
(* root again and its parent entry is not rewritten during the pass; and   *)
(* resolve is only called on visited pixels and reads no sentinel entry.   *)
(***************************************************************************)
C10_Forward(p) ==
    /\ Visited(p) => parents'[p] # undefined_node
    /\ zparents[p] # undefined_node => zparents'[p] # undefined_node
    /\ (zparents[p] = p /\ zparents'[p] # p) =>
        /\ p # pi
        /\ zparents'[p] = pi
        /\ parents'[p] = pi
    /\ (pc # "canonize" /\ zparents[p] \notin {p, undefined_node}) =>
        /\ zparents'[p] # p
        /\ parents'[p] = parents[p]

C10_ResolveOnVisited ==
    pc = "merge" =>
        /\ Head(neighbors) \in Pixels
        /\ Visited(Head(neighbors))
        /\ ~ReadsSentinel(zparents, Head(neighbors))

C10_PerPixelStateMovesForward ==
    [][C10_ResolveOnVisited /\ \A p \in Pixels : C10_Forward(p)]_vars

====
